---- MODULE Spec2Model ----
(***************************************************************************)
(* A model of str_mut_signatures: the VCF extractor (extract.py) and the   *)
(* matrix builder (matrix_builder.py).                                     *)
(*                                                                         *)
(* Text is modelled as a sequence of one-character strings, so that        *)
(* splitting, joining, prefix tests, integer parsing, integer formatting   *)
(* and code-point ordering are computed, not assumed.  A character outside *)
(* ASCII is written by its code point ("U+00B2" is SUPERSCRIPT TWO).       *)
(***************************************************************************)
EXTENDS Integers, Sequences, FiniteSets, TLC

VARIABLES
    dir,                     \* os.listdir(input_dir): the file names, in iteration order
    fidx,                    \* position in dir of the file being visited (1-based)
    pc,                      \* "listdir", "lines", "done", "built", "raised"
    nread,                   \* history: number of lines read so far, over all files
    sample_name,             \* process_vcf_to_rows: local sample_name
    rows,                    \* process_vcf_to_rows: local rows
    filter_not_passed_count, \* process_vcf_to_rows: local counter
    written_variants,        \* process_vcf_to_rows: local counter
    header_seen,             \* header_cols is not None
    normal_idx,              \* process_vcf_to_rows: local (None is modelled as -1)
    tumor_idx,               \* process_vcf_to_rows: local (None is modelled as -1)
    format_fields,           \* process_vcf_to_rows: local ([set |-> FALSE] is None)
    all_rows,                \* parse_vcf_files: local all_rows
    mutations_data,          \* the table returned by parse_vcf_files / given to the builder
    visited,                 \* history: per visited file [name, status, rows at return or raise]
    last,                    \* history: what became of the line just read (and which
                             \* line of LineCatalog it was, for a header or a record;
                             \* whether it was a data line of fewer than 10 columns)
    first_data,              \* history: column 9 of the first data line of the file, and of
                             \* the first one that is neither malformed nor filtered out
    data_kind,               \* the type of the object given to the builder
    data_columns,            \* the column names of the table given to the builder
    ru, ref_length, change,  \* build_mutation_matrix: the configuration
    matrix,                  \* build_mutation_matrix: the returned matrix
    error                    \* build_mutation_matrix: the exception it raised ("none": none)

vars == <<dir, fidx, pc, nread, sample_name, rows, filter_not_passed_count,
          written_variants, header_seen, normal_idx, tumor_idx, format_fields,
          all_rows, mutations_data, visited, last, first_data, data_kind,
          data_columns, ru, ref_length, change, matrix, error>>

(***************************************************************************)
(* Bounds of the model.                                                    *)
(***************************************************************************)
MaxFiles == 2       \* files in the directory
MaxLines == 5       \* lines read during one scan, over all files
MaxRecords == 2     \* records of a table handed directly to the builder
MaxSchemaRecords == 1   \* records of a table whose schema is varied

(***************************************************************************)
(* Characters and strings.                                                 *)
(***************************************************************************)
SUP2 == "U+00B2"    \* SUPERSCRIPT TWO: str.isnumeric() is True, int() raises

DecimalDigits == {"0", "1", "2", "3", "4", "5", "6", "7", "8", "9"}

\* ord(c) for the characters the model uses
Ord(c) ==
    CASE c = "#" -> 35 [] c = "+" -> 43 [] c = "," -> 44 [] c = "-" -> 45
      [] c = "." -> 46 [] c = "/" -> 47
      [] c = "0" -> 48 [] c = "1" -> 49 [] c = "2" -> 50 [] c = "3" -> 51
      [] c = "4" -> 52 [] c = "5" -> 53 [] c = "6" -> 54 [] c = "7" -> 55
      [] c = "8" -> 56 [] c = "9" -> 57
      [] c = "A" -> 65 [] c = "C" -> 67 [] c = "E" -> 69 [] c = "F" -> 70
      [] c = "G" -> 71 [] c = "H" -> 72 [] c = "L" -> 76 [] c = "M" -> 77
      [] c = "N" -> 78 [] c = "O" -> 79 [] c = "P" -> 80 [] c = "R" -> 82
      [] c = "S" -> 83 [] c = "T" -> 84 [] c = "_" -> 95
      [] c = "a" -> 97 [] c = "b" -> 98 [] c = "c" -> 99 [] c = "f" -> 102
      [] c = "g" -> 103 [] c = "q" -> 113 [] c = "t" -> 116 [] c = "v" -> 118
      [] c = "x" -> 120 [] c = "z" -> 122
      [] c = SUP2 -> 178

DigitVal(c) == Ord(c) - 48

DigitChar(n) == CHOOSE c \in DecimalDigits : DigitVal(c) = n

\* str.startswith
StartsWith(s, p) == Len(s) >= Len(p) /\ SubSeq(s, 1, Len(p)) = p

\* str.endswith
EndsWith(s, p) == Len(s) >= Len(p) /\ SubSeq(s, Len(s) - Len(p) + 1, Len(s)) = p

\* str.replace(old, new): leftmost non-overlapping occurrences, old non-empty
RECURSIVE Replace(_, _, _)
Replace(s, old, new) ==
    IF Len(s) < Len(old) THEN s
    ELSE IF StartsWith(s, old)
         THEN new \o Replace(SubSeq(s, Len(old) + 1, Len(s)), old, new)
         ELSE <<s[1]>> \o Replace(Tail(s), old, new)

\* str.isnumeric(): non-empty and every character numeric
IsNumeric(s) == Len(s) > 0 /\ \A i \in 1..Len(s) : s[i] \in DecimalDigits \cup {SUP2}

\* a non-empty string of decimal digits only
IsDecimal(s) == Len(s) > 0 /\ \A i \in 1..Len(s) : s[i] \in DecimalDigits

\* int(s) succeeds (strings of the model carry no sign, blank or underscore)
CanInt(s) == IsDecimal(s)

\* int(s) for a string of decimal digits
RECURSIVE IntOf(_)
IntOf(s) == IF Len(s) = 0 THEN 0
            ELSE 10 * IntOf(SubSeq(s, 1, Len(s) - 1)) + DigitVal(s[Len(s)])

\* str(n) for n >= 0
RECURSIVE StrOfNat(_)
StrOfNat(n) == IF n < 10 THEN <<DigitChar(n)>>
               ELSE StrOfNat(n \div 10) \o <<DigitChar(n % 10)>>

\* str(d) for an integer
StrOfInt(d) == IF d < 0 THEN <<"-">> \o StrOfNat(-d) ELSE StrOfNat(d)

\* a < b for str: by code points, a proper prefix first
RECURSIVE StrLess(_, _)
StrLess(a, b) ==
    IF Len(b) = 0 THEN FALSE
    ELSE IF Len(a) = 0 THEN TRUE
    ELSE IF a[1] = b[1] THEN StrLess(Tail(a), Tail(b))
    ELSE Ord(a[1]) < Ord(b[1])

\* sorted(S) for a finite set of strings
RECURSIVE SortedStrs(_)
SortedStrs(S) ==
    IF S = {} THEN <<>>
    ELSE LET m == CHOOSE x \in S : \A y \in S \ {x} : StrLess(x, y)
         IN <<m>> \o SortedStrs(S \ {m})

\* sep.join(parts)
RECURSIVE Join(_, _)
Join(sep, parts) ==
    IF Len(parts) = 0 THEN <<>>
    ELSE IF Len(parts) = 1 THEN parts[1]
    ELSE parts[1] \o sep \o Join(sep, Tail(parts))

\* the whitespace characters of the model's alphabet
Whitespace == {" ", "\t", "\n", "\r"}

\* s.strip(): leading and trailing whitespace removed
Strip(s) ==
    LET keep == {i \in 1..Len(s) : s[i] \notin Whitespace}
    IN IF keep = {} THEN <<>>
       ELSE SubSeq(s, CHOOSE i \in keep : \A j \in keep : i <= j,
                      CHOOSE i \in keep : \A j \in keep : j <= i)

\* s.split(c) for a one-character separator
RECURSIVE SplitOn(_, _)
SplitOn(s, c) ==
    IF \A i \in 1..Len(s) : s[i] # c THEN <<s>>
    ELSE LET i == CHOOSE j \in 1..Len(s) : s[j] = c /\ \A k \in 1..(j - 1) : s[k] # c
         IN <<SubSeq(s, 1, i - 1)>> \o SplitOn(SubSeq(s, i + 1, Len(s)), c)

(***************************************************************************)
(* extract.py: the pure helpers.                                           *)
(***************************************************************************)
\* a dict is a sequence of <<key, value>> pairs; a later pair overrides an earlier one
DictGet(d, key, default) ==
    LET hits == {i \in 1..Len(d) : d[i][1] = key}
    IN IF hits = {} THEN default
       ELSE d[CHOOSE i \in hits : \A j \in hits : j <= i][2]

\* dict(zip(keys, values)): zip stops at the shorter of the two
ZipDict(keys, values) ==
    LET n == IF Len(keys) < Len(values) THEN Len(keys) ELSE Len(values)
    IN [i \in 1..n |-> <<keys[i], values[i]>>]

\* item.split('=', 1) for an item that contains '='
SplitFirstEq(item) ==
    LET i == CHOOSE j \in 1..Len(item) : item[j] = "=" /\ \A k \in 1..(j - 1) : item[k] # "="
    IN <<SubSeq(item, 1, i - 1), SubSeq(item, i + 1, Len(item))>>

\* the items of a list that satisfy a test, in order
RECURSIVE KeyValueItems(_)
KeyValueItems(items) ==
    IF Len(items) = 0 THEN <<>>
    ELSE IF \E j \in 1..Len(items[1]) : items[1][j] = "="
         THEN <<SplitFirstEq(items[1])>> \o KeyValueItems(Tail(items))
         ELSE KeyValueItems(Tail(items))

parse_info(info_field) == KeyValueItems(SplitOn(info_field, ";"))

DOT == <<".">>

parse_repcn(repcn_str) ==
    LET parts == SplitOn(repcn_str, ",")
    IN IF Len(parts) = 2 THEN <<parts[1], parts[2]>>
       ELSE IF Len(parts) = 1 THEN <<parts[1], parts[1]>>
       ELSE <<DOT, DOT>>

kREPCN == <<"R", "E", "P", "C", "N">>
kPERFECT == <<"P", "E", "R", "F", "E", "C", "T">>
kEND == <<"E", "N", "D">>
kPERIOD == <<"P", "E", "R", "I", "O", "D">>
kREF == <<"R", "E", "F">>
kRU == <<"R", "U">>
sFALSE == <<"F", "A", "L", "S", "E">>
sPASS == <<"P", "A", "S", "S">>
sCHROM == <<"#", "C", "H", "R", "O", "M">>
extVcf == <<".", "v", "c", "f">>
extVcfGz == <<".", "v", "c", "f", ".", "g", "z">>

\* the closure get_repcn of process_vcf_to_rows, for the FORMAT keys fmtkeys
get_repcn(fmtkeys, sample_str) ==
    parse_repcn(DictGet(ZipDict(fmtkeys, SplitOn(sample_str, ":")), kREPCN,
                        <<".", ",", ".">>))

\* cols[i] with Python's 0-based index
Col(cols, i) == cols[i + 1]

TumorIdx == 10

\* a plausible slip: the normal sample read from the tumor's column
NormalIdxIsTumorIdx == TumorIdx

NormalIdx == 9
MinDataCols == 10
FirstSampleCol == 9
MinSamples == 2

SampleNameOf(file) == Replace(Replace(file, extVcf, <<>>), extVcfGz, <<>>)

IsVcfName(file) == EndsWith(file, extVcf) \/ EndsWith(file, extVcfGz)

(***************************************************************************)
(* The inputs: file names, and the lines a file may hold (each line is the *)
(* list of its tab-separated columns).                                     *)
(***************************************************************************)
FileNames == << <<"b">> \o extVcf, <<"b">> \o extVcfGz, <<"c", ".", "t", "x", "t">> >>

KV(k, v) == k \o <<"=">> \o v

InfoOf(items) == Join(<<";">>, items)

mAT == <<"A", "T">>

InfoRU(motif) == InfoOf(<<KV(kEND, <<"9">>), KV(kPERIOD, <<"2">>), KV(kREF, <<"4">>),
                          KV(kRU, motif)>>)
InfoNoRU == InfoOf(<<KV(kEND, <<"9">>), <<"x">>, KV(kREF, <<"4">>)>>)
InfoNotPerfect == InfoOf(<<KV(kPERFECT, sFALSE), KV(kRU, mAT)>>)

fmtGtRepcn == <<"G", "T", ":">> \o kREPCN
fmtRepcnGt == kREPCN \o <<":", "G", "T">>

Fixed7(filter) == << <<"1">>, <<"5">>, <<".">>, <<"A">>, <<".">>, <<".">>, filter >>

DataLine(filter, info, format, samples) == Fixed7(filter) \o <<info, format>> \o samples

Gt(v) == <<"x", ":">> \o v

HeaderLine(samples) ==
    <<sCHROM, <<"P">>, <<"x">>, <<"R">>, <<"A">>, <<"q">>, <<"F">>, <<"x">>, <<"F">>>>
    \o samples

\* the text of a line with these columns, as iterating over the file yields it
Text(cols) == Join(<<"\t">>, cols) \o <<"\n">>

\* line.strip().split('\t')
ColsOf(line) == SplitOn(Strip(line), "\t")

ColumnCatalog == <<
    \* 1: header, two sample columns (named with the tumor first)
    HeaderLine(<< <<"T">>, <<"N">> >>),
    \* 2: header, one sample column
    HeaderLine(<< <<"N">> >>),
    \* 3: a meta line
    << <<"#", "#", "x">> >>,
    \* 4: fewer than 10 columns
    Fixed7(sPASS) \o <<InfoRU(mAT), fmtGtRepcn>>,
    \* 5: PASS, RU=AT, three sample columns: normal 8,10, tumor 8,11, a third 7,7
    DataLine(sPASS, InfoRU(mAT), fmtGtRepcn,
             <<Gt(<<"8", ",", "1", "0">>), Gt(<<"8", ",", "1", "1">>),
               Gt(<<"7", ",", "7">>)>>),
    \* 6: FILTER is not PASS
    DataLine(<<"q">>, InfoRU(mAT), fmtGtRepcn,
             <<Gt(<<"8", ",", "1", "0">>), Gt(<<"8", ",", "1", "1">>)>>),
    \* 7: PERFECT=FALSE
    DataLine(sPASS, InfoNotPerfect, fmtGtRepcn,
             <<Gt(<<"8", ",", "1", "0">>), Gt(<<"8", ",", "1", "1">>)>>),
    \* 8: tumor REPCN is the missing-value sentinel
    DataLine(sPASS, InfoRU(mAT), fmtGtRepcn, <<Gt(<<"8", ",", "1", "0">>), Gt(DOT)>>),
    \* 9: PASS, only one sample column
    DataLine(sPASS, InfoRU(mAT), fmtGtRepcn, <<Gt(<<"8", ",", "1", "0">>)>>),
    \* 10: a tumor allele that is numeric but not a decimal digit
    DataLine(sPASS, InfoRU(<<"A">>), fmtGtRepcn,
             <<Gt(<<"3", ",", "3">>), Gt(<<SUP2, ",", "3">>)>>),
    \* 11: INFO without RU, normal REPCN of one part, tumor 4,5
    DataLine(sPASS, InfoNoRU, fmtGtRepcn, <<Gt(<<"5">>), Gt(<<"4", ",", "5">>)>>),
    \* 12: FORMAT in the other order, and numeric values under both keys: REPCN is
    \* normal 9,10 and tumor 11,10, GT is normal 5,6 and tumor 5,7
    DataLine(sPASS, InfoRU(<<"A">>), fmtRepcnGt,
             <<<<"9", ",", "1", "0", ":", "5", ",", "6">>,
               <<"1", "1", ",", "1", "0", ":", "5", ",", "7">>>>),
    \* 13: a REPCN of three parts
    DataLine(sPASS, InfoRU(mAT), fmtGtRepcn,
             <<Gt(<<"1", ",", "2", ",", "3">>), Gt(<<"8", ",", "1", "1">>)>>),
    \* 14: a REPCN with an empty part
    DataLine(sPASS, InfoRU(mAT), fmtGtRepcn,
             <<Gt(<<"8", ",">>), Gt(<<"8", ",", "1", "1">>)>>)
>>

\* the lines a file may hold, as text
RawLines ==
    [k \in 1..Len(ColumnCatalog) |-> Text(ColumnCatalog[k])]
    \o <<
    \* 15: the two-sample header after a blank: not a '#' line for startswith
    <<" ">> \o Text(HeaderLine(<< <<"T">>, <<"N">> >>)),
    \* 16: a meta line after a blank
    <<" ", "#", "#", "x", "\n">>,
    \* 17: an empty line
    <<"\n">>
    >>

\* the columns of every line
LineCatalog == [k \in 1..Len(RawLines) |-> ColsOf(RawLines[k])]


Lines == 1..Len(LineCatalog)

(***************************************************************************)
(* extract.py: parse_vcf_files and process_vcf_to_rows as a state machine. *)
(* One action is one iteration of a loop of the code.                      *)
(***************************************************************************)
NoFormat == [set |-> FALSE, keys |-> <<>>]
NoLine == [line |-> 0, outcome |-> "none", short |-> FALSE]
NoFirst == [any |-> NoFormat, passing |-> NoFormat]
NoMatrix == [index |-> <<>>, columns |-> <<>>, cells |-> <<>>]

\* the locals of process_vcf_to_rows as they are when the function is entered
FreshLocals(file) ==
    /\ sample_name' = SampleNameOf(file)
    /\ rows' = <<>>
    /\ filter_not_passed_count' = 0
    /\ written_variants' = 0
    /\ header_seen' = FALSE
    /\ normal_idx' = -1
    /\ tumor_idx' = -1
    /\ format_fields' = NoFormat
    /\ first_data' = NoFirst
    /\ last' = NoLine

\* no call of process_vcf_to_rows is active
NoLocals ==
    /\ sample_name' = <<>>
    /\ rows' = <<>>
    /\ filter_not_passed_count' = 0
    /\ written_variants' = 0
    /\ header_seen' = FALSE
    /\ normal_idx' = -1
    /\ tumor_idx' = -1
    /\ format_fields' = NoFormat
    /\ first_data' = NoFirst

BuilderIdle == UNCHANGED <<data_kind, data_columns, ru, ref_length, change, matrix, error>>

\* a sequence of length n over 1..Len(FileNames) without repetition
\* parse_vcf_files: the columns of the DataFrame it returns, with or without rows
Columns == {"sample", "tmp_id", "tumor_allele_a", "tumor_allele_b",
           "normal_allele_a", "normal_allele_b", "end", "period", "ref", "motif"}

DirsOfLen(n) ==
    {d \in [1..n -> 1..Len(FileNames)] : \A i, j \in 1..n : i # j => d[i] # d[j]}

Init ==
    /\ \E n \in 0..MaxFiles : \E d \in DirsOfLen(n) : dir = [i \in 1..n |-> FileNames[d[i]]]
    /\ fidx = 1
    /\ pc = "listdir"
    /\ nread = 0
    /\ sample_name = <<>>
    /\ rows = <<>>
    /\ filter_not_passed_count = 0
    /\ written_variants = 0
    /\ header_seen = FALSE
    /\ normal_idx = -1
    /\ tumor_idx = -1
    /\ format_fields = NoFormat
    /\ all_rows = <<>>
    /\ mutations_data = <<>>
    /\ visited = <<>>
    /\ last = NoLine
    /\ first_data = NoFirst
    /\ data_kind = "DataFrame"
    /\ data_columns = Columns
    /\ ru = "length"
    /\ ref_length = TRUE
    /\ change = TRUE
    /\ matrix = NoMatrix
    /\ error = "none"

\* parse_vcf_files: a directory entry that is no VCF file is passed over
SkipFile ==
    /\ pc = "listdir"
    /\ fidx <= Len(dir)
    /\ ~IsVcfName(dir[fidx])
    /\ visited' = Append(visited, [name |-> dir[fidx], status |-> "ignored", rows |-> <<>>])
    /\ fidx' = fidx + 1
    /\ last' = NoLine
    /\ UNCHANGED <<dir, pc, nread, sample_name, rows, filter_not_passed_count,
                   written_variants, header_seen, normal_idx, tumor_idx, format_fields,
                   all_rows, mutations_data, first_data>>
    /\ BuilderIdle

\* parse_vcf_files calls process_vcf_to_rows on the next VCF file
OpenFile ==
    /\ pc = "listdir"
    /\ fidx <= Len(dir)
    /\ IsVcfName(dir[fidx])
    /\ pc' = "lines"
    /\ FreshLocals(dir[fidx])
    /\ UNCHANGED <<dir, fidx, nread, all_rows, mutations_data, visited>>
    /\ BuilderIdle

\* line.startswith('#CHROM'), line.startswith('#'): tests on the line as read
IsChromLine(line) == StartsWith(line, sCHROM)
IsHashLine(line) == StartsWith(line, <<"#">>)
IsDataLine(line) == ~IsChromLine(line) /\ ~IsHashLine(line)

\* the line passes FILTER
PassesFilter(line, cols) ==
    IsDataLine(line) /\ Len(cols) >= MinDataCols /\ Col(cols, 6) = sPASS

IsNotPerfect(cols) == DictGet(parse_info(Col(cols, 7)), kPERFECT, <<>>) = sFALSE

\* a line that does not start with '#' and has fewer than 10 columns
IsShortDataLine(line, cols) == (Len(line) = 0 \/ line[1] # "#") /\ Len(cols) < 10

\* column 9 of a line, split into the FORMAT keys
FormatOf(cols) == [set |-> TRUE, keys |-> SplitOn(Col(cols, 8), ":")]

\* the history of first data lines, after the line cols is read
FirstDataAfter(line, cols) ==
    IF ~IsDataLine(line) THEN first_data
    ELSE [any |-> IF first_data.any.set \/ Len(cols) < 9 THEN first_data.any
                  ELSE FormatOf(cols),
          passing |-> IF first_data.passing.set \/ ~PassesFilter(line, cols)
                         \/ IsNotPerfect(cols)
                      THEN first_data.passing ELSE FormatOf(cols)]

\* the line is read and the loop continues with the next line
Continue(k, outcome) ==
    /\ nread' = nread + 1
    /\ first_data' = FirstDataAfter(RawLines[k], LineCatalog[k])
    /\ last' = [line |-> IF outcome \in {"record", "header"} THEN k ELSE 0,
                 outcome |-> outcome,
                 short |-> IsShortDataLine(RawLines[k], LineCatalog[k])]
    /\ UNCHANGED <<dir, fidx, pc, sample_name, all_rows, mutations_data, visited>>
    /\ BuilderIdle

\* a plausible slip: the rows gathered before the error are kept (a finally clause)
RaiseKeepsPartialRows(k, outcome) ==
    /\ visited' = Append(visited, [name |-> dir[fidx], status |-> "error", rows |-> rows])
    /\ all_rows' = all_rows \o rows
    /\ fidx' = fidx + 1
    /\ pc' = "listdir"
    /\ last' = [line |-> IF outcome = "raise_header" THEN k ELSE 0, outcome |-> outcome,
                 short |-> IsShortDataLine(RawLines[k], LineCatalog[k])]
    /\ NoLocals
    /\ UNCHANGED <<dir, nread, mutations_data>>
    /\ BuilderIdle

\* process_vcf_to_rows raises: the except clause of parse_vcf_files takes over
Raise(k, outcome) ==
    /\ visited' = Append(visited, [name |-> dir[fidx], status |-> "error", rows |-> rows])
    /\ fidx' = fidx + 1
    /\ pc' = "listdir"
    /\ last' = [line |-> IF outcome = "raise_header" THEN k ELSE 0, outcome |-> outcome,
                 short |-> IsShortDataLine(RawLines[k], LineCatalog[k])]
    /\ NoLocals
    /\ UNCHANGED <<dir, nread, all_rows, mutations_data>>
    /\ BuilderIdle

Reading(k) == pc = "lines" /\ nread < MaxLines /\ k \in Lines

\* the #CHROM line with at least two sample columns
ReadHeader(k) ==
    LET line == RawLines[k]
        cols == LineCatalog[k] IN
    /\ Reading(k)
    /\ IsChromLine(line)
    /\ Len(cols) - FirstSampleCol >= MinSamples
    /\ header_seen' = TRUE
    /\ normal_idx' = NormalIdx
    /\ tumor_idx' = TumorIdx
    /\ UNCHANGED <<rows, filter_not_passed_count, written_variants, format_fields>>
    /\ Continue(k, "header")

\* the #CHROM line with fewer than two sample columns: ValueError
ReadHeaderTooFewSamples(k) ==
    LET line == RawLines[k]
        cols == LineCatalog[k] IN
    /\ Reading(k)
    /\ IsChromLine(line)
    /\ Len(cols) - FirstSampleCol < MinSamples
    /\ Raise(k, "raise_header")

\* any other line that starts with '#'
ReadComment(k) ==
    LET line == RawLines[k]
        cols == LineCatalog[k] IN
    /\ Reading(k)
    /\ ~IsChromLine(line)
    /\ IsHashLine(line)
    /\ UNCHANGED <<rows, filter_not_passed_count, written_variants, header_seen,
                   normal_idx, tumor_idx, format_fields>>
    /\ Continue(k, "comment")

\* a plausible slip: a line with fewer than 10 columns is counted as rejected
ReadMalformedCounted(k) ==
    LET line == RawLines[k]
        cols == LineCatalog[k] IN
    /\ Reading(k)
    /\ IsDataLine(line)
    /\ Len(cols) < MinDataCols
    /\ filter_not_passed_count' = filter_not_passed_count + 1
    /\ UNCHANGED <<rows, written_variants, header_seen, normal_idx, tumor_idx,
                   format_fields>>
    /\ Continue(k, "malformed")

\* a data line with fewer than 10 columns
ReadMalformed(k) ==
    LET line == RawLines[k]
        cols == LineCatalog[k] IN
    /\ Reading(k)
    /\ IsDataLine(line)
    /\ Len(cols) < MinDataCols
    /\ UNCHANGED <<rows, filter_not_passed_count, written_variants, header_seen,
                   normal_idx, tumor_idx, format_fields>>
    /\ Continue(k, "malformed")

\* a data line whose FILTER is not PASS
ReadFilterNotPassed(k) ==
    LET line == RawLines[k]
        cols == LineCatalog[k] IN
    /\ Reading(k)
    /\ IsDataLine(line)
    /\ Len(cols) >= MinDataCols
    /\ Col(cols, 6) # sPASS
    /\ filter_not_passed_count' = filter_not_passed_count + 1
    /\ UNCHANGED <<rows, written_variants, header_seen, normal_idx, tumor_idx,
                   format_fields>>
    /\ Continue(k, "filter")

\* a plausible slip: a line that is not a perfect call is counted as rejected
ReadNotPerfectCounted(k) ==
    LET line == RawLines[k]
        cols == LineCatalog[k] IN
    /\ Reading(k)
    /\ PassesFilter(line, cols)
    /\ IsNotPerfect(cols)
    /\ filter_not_passed_count' = filter_not_passed_count + 1
    /\ UNCHANGED <<rows, written_variants, header_seen, normal_idx, tumor_idx,
                   format_fields>>
    /\ Continue(k, "notperfect")

\* a data line annotated PERFECT=FALSE
ReadNotPerfect(k) ==
    LET line == RawLines[k]
        cols == LineCatalog[k] IN
    /\ Reading(k)
    /\ PassesFilter(line, cols)
    /\ IsNotPerfect(cols)
    /\ UNCHANGED <<rows, filter_not_passed_count, written_variants, header_seen,
                   normal_idx, tumor_idx, format_fields>>
    /\ Continue(k, "notperfect")

\* a plausible slip: the FORMAT of every line is taken from the line itself
FormatOfEachLine(cols) == [set |-> TRUE, keys |-> SplitOn(Col(cols, 8), ":")]

\* format_fields after "if format_fields is None: format_fields = cols[8].split(':')"
FormatAfter(cols) ==
    IF format_fields.set THEN format_fields
    ELSE [set |-> TRUE, keys |-> SplitOn(Col(cols, 8), ":")]

\* cols[normal_idx] or cols[tumor_idx] raises (None index, or index out of range)
SampleAccessRaises(cols) ==
    \/ normal_idx = -1
    \/ normal_idx >= Len(cols)
    \/ tumor_idx = -1
    \/ tumor_idx >= Len(cols)

\* a data line read before any header, or lacking a sample column: an exception
ReadMissingSample(k) ==
    LET line == RawLines[k]
        cols == LineCatalog[k] IN
    /\ Reading(k)
    /\ PassesFilter(line, cols)
    /\ ~IsNotPerfect(cols)
    /\ SampleAccessRaises(cols)
    /\ Raise(k, "raise_sample")

NormalAlleles(cols) == get_repcn(FormatAfter(cols).keys, Col(cols, normal_idx))
TumorAlleles(cols) == get_repcn(FormatAfter(cols).keys, Col(cols, tumor_idx))

\* "n_a.isnumeric() and n_b.isnumeric() and t_a.isnumeric() and t_b.isnumeric()"
AllNumeric(cols) ==
    /\ IsNumeric(NormalAlleles(cols)[1])
    /\ IsNumeric(NormalAlleles(cols)[2])
    /\ IsNumeric(TumorAlleles(cols)[1])
    /\ IsNumeric(TumorAlleles(cols)[2])

\* a data line with a REPCN value that is not numeric
ReadNonNumeric(k) ==
    LET line == RawLines[k]
        cols == LineCatalog[k] IN
    /\ Reading(k)
    /\ PassesFilter(line, cols)
    /\ ~IsNotPerfect(cols)
    /\ ~SampleAccessRaises(cols)
    /\ ~AllNumeric(cols)
    /\ format_fields' = FormatAfter(cols)
    /\ UNCHANGED <<rows, filter_not_passed_count, written_variants, header_seen,
                   normal_idx, tumor_idx>>
    /\ Continue(k, "nonnumeric")

\* the dict appended to rows
RowOf(cols) ==
    LET info == parse_info(Col(cols, 7)) IN
    [sample |-> sample_name,
     tmp_id |-> Col(cols, 0) \o <<"_">> \o Col(cols, 1),
     tumor_allele_a |-> TumorAlleles(cols)[1],
     tumor_allele_b |-> TumorAlleles(cols)[2],
     normal_allele_a |-> NormalAlleles(cols)[1],
     normal_allele_b |-> NormalAlleles(cols)[2],
     end |-> DictGet(info, kEND, <<>>),
     period |-> DictGet(info, kPERIOD, <<>>),
     ref |-> DictGet(info, kREF, <<>>),
     motif |-> DictGet(info, kRU, <<>>)]

\* a data line that yields a record
ReadAccepted(k) ==
    LET line == RawLines[k]
        cols == LineCatalog[k] IN
    /\ Reading(k)
    /\ PassesFilter(line, cols)
    /\ ~IsNotPerfect(cols)
    /\ ~SampleAccessRaises(cols)
    /\ AllNumeric(cols)
    /\ format_fields' = FormatAfter(cols)
    /\ written_variants' = written_variants + 1
    /\ rows' = Append(rows, RowOf(cols))
    /\ UNCHANGED <<filter_not_passed_count, header_seen, normal_idx, tumor_idx>>
    /\ Continue(k, "record")

\* the file ends: process_vcf_to_rows returns rows, parse_vcf_files extends all_rows
EndOfFile ==
    /\ pc = "lines"
    /\ all_rows' = all_rows \o rows
    /\ visited' = Append(visited, [name |-> dir[fidx], status |-> "ok", rows |-> rows])
    /\ fidx' = fidx + 1
    /\ pc' = "listdir"
    /\ last' = NoLine
    /\ NoLocals
    /\ UNCHANGED <<dir, nread, mutations_data>>
    /\ BuilderIdle

\* the directory is exhausted: parse_vcf_files returns the table
ReturnTable ==
    /\ pc = "listdir"
    /\ fidx > Len(dir)
    /\ mutations_data' = all_rows
    /\ pc' = "done"
    /\ UNCHANGED <<dir, fidx, nread, sample_name, rows, filter_not_passed_count,
                   written_variants, header_seen, normal_idx, tumor_idx, format_fields,
                   all_rows, visited, last, first_data>>
    /\ BuilderIdle

ReadLine ==
    \E k \in Lines :
        \/ ReadHeader(k)
        \/ ReadHeaderTooFewSamples(k)
        \/ ReadComment(k)
        \/ ReadMalformed(k)
        \/ ReadFilterNotPassed(k)
        \/ ReadNotPerfect(k)
        \/ ReadMissingSample(k)
        \/ ReadNonNumeric(k)
        \/ ReadAccepted(k)

ExtractNext == SkipFile \/ OpenFile \/ ReadLine \/ EndOfFile \/ ReturnTable

SpecExtract == Init /\ [][ExtractNext]_vars

(***************************************************************************)
(* matrix_builder.py: build_mutation_matrix.                               *)
(* pd.NA is NA for a string and NAInt for a number; an integer v is        *)
(* Int_(v).  ru is "none" (None), "length" or "ru".                        *)
(***************************************************************************)
NA == <<"NA">>
NAInt == [na |-> TRUE, v |-> 0]
Int_(v) == [na |-> FALSE, v |-> v]

RuValues == {"none", "length", "ru"}

\* sorted([x, y]) for two integers
Sorted2(x, y) == IF y < x THEN <<y, x>> ELSE <<x, y>>

\* a plausible slip: the alleles sorted as the strings they are, not as integers
compute_allele_changes_sorting_strings(row) ==
    IF /\ CanInt(row.tumor_allele_a) /\ CanInt(row.tumor_allele_b)
       /\ CanInt(row.normal_allele_a) /\ CanInt(row.normal_allele_b)
    THEN LET tumor == SortedStrs({row.tumor_allele_a, row.tumor_allele_b})
             normal == SortedStrs({row.normal_allele_a, row.normal_allele_b})
             t == <<IntOf(tumor[1]), IntOf(tumor[Len(tumor)])>>
             n == <<IntOf(normal[1]), IntOf(normal[Len(normal)])>>
         IN [change_a |-> Int_(t[1] - n[1]),
             change_b |-> Int_(t[2] - n[2]),
             ref_a |-> Int_(n[1]),
             ref_b |-> Int_(n[2])]
    ELSE [change_a |-> NAInt, change_b |-> NAInt, ref_a |-> NAInt, ref_b |-> NAInt]

\* a plausible slip: alleles that do not parse count as no change from length 0
compute_allele_changes_zero_on_failure(row) ==
    IF /\ CanInt(row.tumor_allele_a) /\ CanInt(row.tumor_allele_b)
       /\ CanInt(row.normal_allele_a) /\ CanInt(row.normal_allele_b)
    THEN LET tumor == Sorted2(IntOf(row.tumor_allele_a), IntOf(row.tumor_allele_b))
             normal == Sorted2(IntOf(row.normal_allele_a), IntOf(row.normal_allele_b))
         IN [change_a |-> Int_(tumor[1] - normal[1]),
             change_b |-> Int_(tumor[2] - normal[2]),
             ref_a |-> Int_(normal[1]),
             ref_b |-> Int_(normal[2])]
    ELSE [change_a |-> Int_(0), change_b |-> Int_(0), ref_a |-> Int_(0), ref_b |-> Int_(0)]

compute_allele_changes(row) ==
    IF /\ CanInt(row.tumor_allele_a) /\ CanInt(row.tumor_allele_b)
       /\ CanInt(row.normal_allele_a) /\ CanInt(row.normal_allele_b)
    THEN LET tumor == Sorted2(IntOf(row.tumor_allele_a), IntOf(row.tumor_allele_b))
             normal == Sorted2(IntOf(row.normal_allele_a), IntOf(row.normal_allele_b))
         IN [change_a |-> Int_(tumor[1] - normal[1]),
             change_b |-> Int_(tumor[2] - normal[2]),
             ref_a |-> Int_(normal[1]),
             ref_b |-> Int_(normal[2])]
    ELSE [change_a |-> NAInt, change_b |-> NAInt, ref_a |-> NAInt, ref_b |-> NAInt]

\* parts.append(...) for the motif, by ru
MotifParts(r, motif) ==
    IF r = "length" THEN << <<"L", "E", "N">> \o StrOfNat(Len(motif)) >>
    ELSE IF r = "ru" THEN <<motif>>
    ELSE <<>>

\* a plausible slip: no explicit sign for a positive change
SignedStrWithoutPlus(d) == StrOfInt(d)

\* f"{sign}{d}"
SignedStr(d) == (IF d > 0 THEN <<"+">> ELSE <<>>) \o StrOfInt(d)

\* a plausible slip: a zero change is not suppressed
make_feature_keeping_zero_delta(r, rl, ch, motif, ref, delta) ==
    IF motif = NA THEN NA
    ELSE IF rl /\ ref.na THEN NA
    ELSE IF ch /\ delta.na THEN NA
    ELSE LET parts == MotifParts(r, motif)
                      \o (IF rl THEN <<StrOfInt(ref.v)>> ELSE <<>>)
                      \o (IF ch THEN <<SignedStr(delta.v)>> ELSE <<>>)
         IN IF Len(parts) = 0 THEN NA ELSE Join(<<"_">>, parts)

\* a plausible slip: no check for an empty list of parts
make_feature_without_empty_check(r, rl, ch, motif, ref, delta) ==
    IF motif = NA THEN NA
    ELSE IF rl /\ ref.na THEN NA
    ELSE IF ch /\ (delta.na \/ delta.v = 0) THEN NA
    ELSE Join(<<"_">>, MotifParts(r, motif)
                       \o (IF rl THEN <<StrOfInt(ref.v)>> ELSE <<>>)
                       \o (IF ch THEN <<SignedStr(delta.v)>> ELSE <<>>))

make_feature(r, rl, ch, motif, ref, delta) ==
    IF motif = NA THEN NA
    ELSE IF rl /\ ref.na THEN NA
    ELSE IF ch /\ (delta.na \/ delta.v = 0) THEN NA
    ELSE LET parts == MotifParts(r, motif)
                      \o (IF rl THEN <<StrOfInt(ref.v)>> ELSE <<>>)
                      \o (IF ch THEN <<SignedStr(delta.v)>> ELSE <<>>)
         IN IF Len(parts) = 0 THEN NA ELSE Join(<<"_">>, parts)

mutation_type_a(r, rl, ch, row) ==
    LET d == compute_allele_changes(row)
    IN make_feature(r, rl, ch, row.motif, d.ref_a, d.change_a)

mutation_type_b(r, rl, ch, row) ==
    LET d == compute_allele_changes(row)
    IN make_feature(r, rl, ch, row.motif, d.ref_b, d.change_b)

\* a plausible slip: value_vars names mutation_type_a only
MeltAlleleAOnly(table, r, rl, ch) ==
    [i \in 1..Len(table) |->
        [sample |-> table[i].sample, mutation_type |-> mutation_type_a(r, rl, ch, table[i])]]

\* pd.melt: the allele-A value of every record, then the allele-B value of every record
Melt(table, r, rl, ch) ==
    [i \in 1..Len(table) |->
        [sample |-> table[i].sample, mutation_type |-> mutation_type_a(r, rl, ch, table[i])]]
    \o
    [i \in 1..Len(table) |->
        [sample |-> table[i].sample, mutation_type |-> mutation_type_b(r, rl, ch, table[i])]]

\* dropna(subset=["mutation_type"])
RECURSIVE DropNA(_)
DropNA(long) ==
    IF Len(long) = 0 THEN <<>>
    ELSE IF long[1].mutation_type = NA THEN DropNA(Tail(long))
         ELSE <<long[1]>> \o DropNA(Tail(long))

df_long(table, r, rl, ch) == DropNA(Melt(table, r, rl, ch))

\* the axis labels of groupby(...).size().unstack(...), after sort_index
AxisOrder(S) == SortedStrs(S)

\* the distinct values of a list, in the order of their first appearance
RECURSIVE FirstSeen(_, _)
FirstSeen(seq, seen) ==
    IF Len(seq) = 0 THEN <<>>
    ELSE IF seq[1] \in seen THEN FirstSeen(Tail(seq), seen)
         ELSE <<seq[1]>> \o FirstSeen(Tail(seq), seen \cup {seq[1]})

\* a plausible slip: groupby(sort=False) and no sort_index, so the axes follow the rows
CountMatrixInRowOrder(long) ==
    LET index == FirstSeen([i \in 1..Len(long) |-> long[i].sample], {})
        columns == FirstSeen([i \in 1..Len(long) |-> long[i].mutation_type], {})
    IN [index |-> index,
        columns |-> columns,
        cells |-> [a \in 1..Len(index) |-> [b \in 1..Len(columns) |->
                     Cardinality({i \in 1..Len(long) :
                                     /\ long[i].sample = index[a]
                                     /\ long[i].mutation_type = columns[b]})]]]

\* groupby(["sample", "mutation_type"]).size().unstack(fill_value=0), both axes sorted
CountMatrix(long) ==
    LET index == AxisOrder({long[i].sample : i \in 1..Len(long)})
        columns == AxisOrder({long[i].mutation_type : i \in 1..Len(long)})
    IN [index |-> index,
        columns |-> columns,
        cells |-> [a \in 1..Len(index) |-> [b \in 1..Len(columns) |->
                     Cardinality({i \in 1..Len(long) :
                                     /\ long[i].sample = index[a]
                                     /\ long[i].mutation_type = columns[b]})]]]

build_mutation_matrix(table, r, rl, ch) ==
    LET long == df_long(table, r, rl, ch)
    IN IF Len(long) = 0 THEN NoMatrix ELSE CountMatrix(long)

\* an argument for ru that is none of None, 'length', 'ru'
sSEQ == "seq"

\* the values the caller may pass for ru
RuInputs == RuValues \cup {sSEQ}

required_cols == {"sample", "normal_allele_a", "normal_allele_b",
                  "tumor_allele_a", "tumor_allele_b"}

\* a plausible slip: ru is not validated
BasicChecksWithoutRu(kind, cols, r) ==
    IF kind # "DataFrame" THEN "TypeError"
    ELSE IF required_cols \ cols # {} THEN "ValueError_required"
    ELSE IF "motif" \notin cols /\ "RU" \notin cols THEN "ValueError_motif"
    ELSE "none"

\* "Basic checks & setup": the exception the checks raise, in their order, or "none"
BasicChecks(kind, cols, r) ==
    IF kind # "DataFrame" THEN "TypeError"
    ELSE IF required_cols \ cols # {} THEN "ValueError_required"
    ELSE IF "motif" \notin cols /\ "RU" \notin cols THEN "ValueError_motif"
    ELSE IF r \notin RuValues THEN "ValueError_ru"
    ELSE "none"

\* 'motif' if the table has it, else 'RU'
motif_col(cols) == IF "motif" \in cols THEN "motif" ELSE "RU"

\* the table with the repeat unit of every record under the name motif
WithMotif(table, cols) ==
    IF motif_col(cols) = "motif" THEN table
    ELSE [i \in 1..Len(table) |->
            [c \in (DOMAIN table[i]) \cup {"motif"} |->
                IF c = "motif" THEN table[i][motif_col(cols)] ELSE table[i][c]]]

\* the names of the four derived columns
derived_cols == <<"change_a", "change_b", "ref_a", "ref_b">>

\* df[[four names]] = df.apply(compute_allele_changes, axis=1): on a table without
\* rows, apply returns a copy of the table, and the assignment raises unless that
\* copy has as many columns as there are names
AssignRaises(table, cols) == Len(table) = 0 /\ Cardinality(cols) # Len(derived_cols)

\* the exception a call raises, or "none"
BuildError(kind, cols, table, r) ==
    IF BasicChecks(kind, cols, r) # "none" THEN BasicChecks(kind, cols, r)
    ELSE IF AssignRaises(table, cols) THEN "ValueError_assign"
    ELSE "none"

BuildUnchanged ==
    UNCHANGED <<dir, fidx, nread, sample_name, rows, filter_not_passed_count,
                written_variants, header_seen, normal_idx, tumor_idx, format_fields,
                all_rows, mutations_data, visited, last, first_data, data_kind,
                data_columns>>

\* build_mutation_matrix is called with some configuration and returns a matrix
Build ==
    /\ pc = "done"
    /\ \E r \in RuInputs, rl \in BOOLEAN, ch \in BOOLEAN :
        /\ BuildError(data_kind, data_columns, mutations_data, r) = "none"
        /\ ru' = r
        /\ ref_length' = rl
        /\ change' = ch
        /\ matrix' = build_mutation_matrix(WithMotif(mutations_data, data_columns), r, rl, ch)
    /\ error' = "none"
    /\ pc' = "built"
    /\ BuildUnchanged

\* build_mutation_matrix is called with some configuration and raises
BuildRaises ==
    /\ pc = "done"
    /\ \E r \in RuInputs, rl \in BOOLEAN, ch \in BOOLEAN :
        /\ BuildError(data_kind, data_columns, mutations_data, r) # "none"
        /\ ru' = r
        /\ ref_length' = rl
        /\ change' = ch
        /\ error' = BuildError(data_kind, data_columns, mutations_data, r)
    /\ pc' = "raised"
    /\ UNCHANGED matrix
    /\ BuildUnchanged

BuildNext == Build \/ BuildRaises

\* the whole pipeline: parse_vcf_files, then build_mutation_matrix on its table
Next == ExtractNext \/ BuildNext

Spec == Init /\ [][Next]_vars

(***************************************************************************)
(* The builder on tables from any source that meets the record schema.     *)
(***************************************************************************)
Rec(sample, ta, tb, na, nb, motif) ==
    [sample |-> sample, tmp_id |-> <<"1", "_", "5">>,
     tumor_allele_a |-> ta, tumor_allele_b |-> tb,
     normal_allele_a |-> na, normal_allele_b |-> nb,
     end |-> <<"9">>, period |-> <<"2">>, ref |-> <<"4">>, motif |-> motif]

Samples == { <<"S", "1">>, <<"S", "2">> }

\* the record shapes: tumor a, tumor b, normal a, normal b, motif
Shapes == {
    << <<"8">>, <<"1", "1">>, <<"8">>, <<"1", "0">>, mAT >>,
    << <<"1", "1">>, <<"8">>, <<"1", "0">>, <<"8">>, mAT >>,
    << <<"1", "2">>, <<"1", "0">>, <<"1", "0">>, <<"1", "2">>, mAT >>,
    << <<"1", "1">>, <<"1", "0">>, <<"9">>, <<"1", "0">>, <<"A">> >>,
    << <<"5">>, <<"4">>, <<"5">>, <<"5">>, <<>> >>,
    << <<"8">>, <<"1", "1">>, <<"8">>, <<"1", "0">>, NA >>,
    << <<SUP2>>, <<"3">>, <<"3">>, <<"3">>, <<"A">> >>
}

RecordSet == {Rec(s, x[1], x[2], x[3], x[4], x[5]) : s \in Samples, x \in Shapes}

\* the tables of at most MaxRecords records, the table without records included
Tables == UNION {[1..n -> RecordSet] : n \in 0..MaxRecords}

\* no scan has run: the table comes from elsewhere
NoScan ==
    /\ pc = "done"
    /\ dir = <<>>
    /\ fidx = 1
    /\ nread = 0
    /\ sample_name = <<>>
    /\ rows = <<>>
    /\ filter_not_passed_count = 0
    /\ written_variants = 0
    /\ header_seen = FALSE
    /\ normal_idx = -1
    /\ tumor_idx = -1
    /\ format_fields = NoFormat
    /\ all_rows = <<>>
    /\ visited = <<>>
    /\ last = NoLine
    /\ first_data = NoFirst
    /\ ru = "length"
    /\ ref_length = TRUE
    /\ change = TRUE
    /\ matrix = NoMatrix
    /\ error = "none"

InitMatrix ==
    /\ mutations_data \in Tables
    /\ data_kind = "DataFrame"
    /\ data_columns = Columns
    /\ NoScan

SpecMatrix == InitMatrix /\ [][BuildNext]_vars

(***************************************************************************)
(* The builder on objects whose type and columns vary.                     *)
(***************************************************************************)
sGGG == <<"G", "G", "G">>

\* the values of a record under every column name; a column RU holds GGG
Wide(row) == [c \in Columns \cup {"RU"} |-> IF c = "RU" THEN sGGG ELSE row[c]]

\* the record of a table that has the columns cols
Narrow(row, cols) == [c \in cols |-> Wide(row)[c]]

SchemaRecords == {Rec(<<"S", "1">>, x[1], x[2], x[3], x[4], x[5]) : x \in Shapes}

SchemaTables == UNION {[1..n -> SchemaRecords] : n \in 0..MaxSchemaRecords}

\* at most two of these columns are left out, and a column RU may be added
DroppedColumns == {D \in SUBSET (required_cols \cup {"motif", "end"}) : Cardinality(D) <= 2}
AddedColumns == {{}, {"RU"}}

\* a DataFrame, or a list of dicts
Kinds == {"DataFrame", "list"}

InitSchema ==
    /\ \E t \in SchemaTables, D \in DroppedColumns, A \in AddedColumns :
          /\ data_columns = (Columns \ D) \cup A
          /\ mutations_data = [i \in 1..Len(t) |-> Narrow(t[i], (Columns \ D) \cup A)]
    /\ data_kind \in Kinds
    /\ NoScan

SpecSchema == InitSchema /\ [][BuildNext]_vars

(***************************************************************************)
(* The extractor's properties.                                             *)
(***************************************************************************)
\* the elements of a sequence
Range(seq) == {seq[i] : i \in 1..Len(seq)}

AllelesOf(r) == <<r.tumor_allele_a, r.tumor_allele_b, r.normal_allele_a, r.normal_allele_b>>

EmittedRecords == Range(rows) \cup Range(all_rows) \cup Range(mutations_data)

\* C1: every record emitted by process_vcf_to_rows has four allele fields that are
\* non-empty strings of decimal digits only (a line with any other REPCN value
\* yields no record).
C1_AllelesAreDecimalDigits ==
    \A r \in EmittedRecords : \A i \in 1..4 : IsDecimal(AllelesOf(r)[i])

\* the rows of the files that parsed without error, in the order the files were visited
RECURSIVE OkRows(_)
OkRows(v) ==
    IF Len(v) = 0 THEN <<>>
    ELSE (IF v[1].status = "ok" THEN v[1].rows ELSE <<>>) \o OkRows(Tail(v))

\* C2: a file that raises during parsing is skipped whole (the records it had
\* already yielded are discarded), the scan goes on to every remaining file, and
\* the returned table is the concatenation, in iteration order, of the records
\* of the files that parsed without error.
C2_FailingFilesAreSkippedWhole ==
    /\ all_rows = OkRows(visited)
    /\ \A i \in 1..Len(visited) : visited[i].name = dir[i]
    /\ \A i \in 1..Len(visited) :
          visited[i].status # "ok" =>
             \A r \in Range(all_rows) : r.sample # SampleNameOf(visited[i].name)
    /\ pc = "done" => Len(visited) = Len(dir) /\ mutations_data = OkRows(visited)

\* C2 witness: the scan is over; a file failed after it had yielded a record, and a
\* later file parsed without error and yielded a record
C2_Witness ==
    /\ pc = "done"
    /\ \E i, j \in 1..Len(visited) :
          /\ i < j
          /\ visited[i].status = "error" /\ Len(visited[i].rows) > 0
          /\ visited[j].status = "ok" /\ Len(visited[j].rows) > 0

\* C3: a #CHROM line with fewer than two sample columns fails the file, any other
\* #CHROM line is accepted; every record then takes its normal alleles from
\* column 9 and its tumor alleles from column 10 of its line, whatever the
\* header names the columns and however many sample columns follow.
C3_SamplesArePositional ==
    /\ last.outcome = "header" =>
          /\ Len(LineCatalog[last.line]) >= 11
          /\ normal_idx = 9 /\ tumor_idx = 10
    /\ last.outcome = "raise_header" =>
          /\ Len(LineCatalog[last.line]) < 11
          /\ visited[Len(visited)].status = "error"
    /\ last.outcome = "record" =>
          LET cols == LineCatalog[last.line]
              r == rows[Len(rows)]
          IN /\ <<r.normal_allele_a, r.normal_allele_b>> = get_repcn(format_fields.keys, cols[10])
             /\ <<r.tumor_allele_a, r.tumor_allele_b>> = get_repcn(format_fields.keys, cols[11])

\* C3 witness: a record was just taken from the line with three sample columns,
\* under a header that names the first sample column T and the second N
C3_Witness ==
    /\ last.outcome = "record"
    /\ Len(LineCatalog[last.line]) = 12
    /\ header_seen
    /\ rows[Len(rows)].normal_allele_b = <<"1", "0">>
    /\ rows[Len(rows)].tumor_allele_b = <<"1", "1">>

(***************************************************************************)
(* The builder's properties.                                               *)
(***************************************************************************)
Built == pc = "built"

Slots == {"a", "b"}

\* the label the builder gives to allele slot `slot` of record i, under the configuration
LabelOf(i, slot) ==
    IF slot = "a" THEN mutation_type_a(ru, ref_length, change, mutations_data[i])
    ELSE mutation_type_b(ru, ref_length, change, mutations_data[i])

\* the (record, allele slot) pairs whose label is not suppressed
Events == {e \in (1..Len(mutations_data)) \X Slots : LabelOf(e[1], e[2]) # NA}

\* strictly ascending in code-point order
Ascending(seq) == \A a, b \in 1..Len(seq) : a < b => StrLess(seq[a], seq[b])

RECURSIVE SumSeq(_)
SumSeq(seq) == IF Len(seq) = 0 THEN 0 ELSE seq[1] + SumSeq(Tail(seq))

\* the sum of all cells of a matrix
Total(m) == SumSeq([a \in 1..Len(m.cells) |-> SumSeq(m.cells[a])])

\* C4: when at least one event survives, the columns are the distinct labels of the
\* surviving events, each cell counts the (record, allele slot) pairs of its
\* sample with its label (0 where there is none), a record contributes at most
\* two events, suppressed events are not counted, and both axes are ascending.
C4_CellsCountEvents ==
    (Built /\ Events # {}) =>
        /\ Range(matrix.columns) = {LabelOf(e[1], e[2]) : e \in Events}
        /\ Len(matrix.cells) = Len(matrix.index)
        /\ \A a \in 1..Len(matrix.index) :
              /\ Len(matrix.cells[a]) = Len(matrix.columns)
              /\ \A b \in 1..Len(matrix.columns) :
                    matrix.cells[a][b] =
                        Cardinality({e \in Events :
                                        /\ mutations_data[e[1]].sample = matrix.index[a]
                                        /\ LabelOf(e[1], e[2]) = matrix.columns[b]})
        /\ Total(matrix) = Cardinality(Events)
        /\ Total(matrix) <= 2 * Len(mutations_data)
        /\ Ascending(matrix.index)
        /\ Ascending(matrix.columns)

\* C4 witness: a matrix of two rows and at least two columns with a zero cell, a
\* cell of 2, and a suppressed event
C4_Witness ==
    /\ Built
    /\ Len(matrix.index) = 2
    /\ Len(matrix.columns) >= 2
    /\ \E a \in 1..2, b \in 1..Len(matrix.columns) : matrix.cells[a][b] = 0
    /\ \E a \in 1..2, b \in 1..Len(matrix.columns) : matrix.cells[a][b] = 2
    /\ Cardinality(Events) < 2 * Len(mutations_data)

Min2(x, y) == IF x <= y THEN x ELSE y
Max2(x, y) == IF x >= y THEN x ELSE y

AllelesParse(row) == \A i \in 1..4 : IsDecimal(AllelesOf(row)[i])

\* tumor minus normal for the lower-ranked (slot a) and the higher-ranked (slot b) allele
RankDelta(row, slot) ==
    LET ta == IntOf(row.tumor_allele_a)   tb == IntOf(row.tumor_allele_b)
        na == IntOf(row.normal_allele_a)  nb == IntOf(row.normal_allele_b)
    IN IF slot = "a" THEN Min2(ta, tb) - Min2(na, nb) ELSE Max2(ta, tb) - Max2(na, nb)

RankRef(row, slot) ==
    LET na == IntOf(row.normal_allele_a)  nb == IntOf(row.normal_allele_b)
    IN IF slot = "a" THEN Min2(na, nb) ELSE Max2(na, nb)

\* the event of allele slot `slot` of the record is counted, said without the builder
Survives(row, slot) ==
    /\ row.motif # NA
    /\ ru # "none" \/ ref_length \/ change
    /\ ref_length => AllelesParse(row)
    /\ change => AllelesParse(row) /\ RankDelta(row, slot) # 0

SamplesWithEvents ==
    {mutations_data[i].sample : i \in {j \in 1..Len(mutations_data) :
                                          \E slot \in Slots : Survives(mutations_data[j], slot)}}

\* C5 as stated: the matrix has one row for every distinct sample of the input
\* table, sorted, for every configuration.
C5_RowsAreAllSamples ==
    Built =>
        /\ Range(matrix.index) = {mutations_data[i].sample : i \in 1..Len(mutations_data)}
        /\ Ascending(matrix.index)

\* C5 amended: the matrix has one row for every distinct sample that has at least
\* one surviving event, sorted; a sample whose events are all suppressed has no row.
C5_RowsAreSamplesWithEvents ==
    Built =>
        /\ Range(matrix.index) = SamplesWithEvents
        /\ Ascending(matrix.index)

\* C5 witness: the table holds two samples, and the matrix has a row for one only
C5_Witness ==
    /\ Built
    /\ Cardinality({mutations_data[i].sample : i \in 1..Len(mutations_data)}) = 2
    /\ Len(matrix.index) = 1

\* the table without its record i
RemoveAt(table, i) == SubSeq(table, 1, i - 1) \o SubSeq(table, i + 1, Len(table))

\* the number of events record i adds to the matrix
Contribution(i) ==
    Total(matrix) - Total(build_mutation_matrix(RemoveAt(mutations_data, i),
                                                ru, ref_length, change))

\* sorted tumor pair = sorted normal pair
SamePairs(row) ==
    /\ AllelesParse(row)
    /\ RankDelta(row, "a") = 0
    /\ RankDelta(row, "b") = 0

\* C6 as stated: for every ru and ref_length, a record whose sorted tumor pair
\* equals its sorted normal pair contributes no event when change=True and
\* exactly two when change=False.
C6_SamePairsZeroOrTwo ==
    Built =>
        \A i \in 1..Len(mutations_data) :
            (SamePairs(mutations_data[i]) /\ mutations_data[i].motif # NA) =>
                Contribution(i) = IF change THEN 0 ELSE 2

\* C6 amended: such a record contributes no event when change=True; when
\* change=False it contributes exactly two if ru is "length" or "ru" or
\* ref_length is True, and none if ru=None and ref_length=False.
C6_SamePairsZeroOrTwoUnlessAllOff ==
    Built =>
        \A i \in 1..Len(mutations_data) :
            (SamePairs(mutations_data[i]) /\ mutations_data[i].motif # NA) =>
                Contribution(i) = IF change \/ (ru = "none" /\ ~ref_length) THEN 0 ELSE 2

\* C6 witness: a table with such a record (tumor 12,10 against normal 10,12) built
\* with change=False and the reference length on, where the record adds two events
C6_Witness ==
    /\ Built
    /\ ~change /\ ref_length
    /\ \E i \in 1..Len(mutations_data) :
          /\ SamePairs(mutations_data[i])
          /\ mutations_data[i].tumor_allele_a # mutations_data[i].normal_allele_a
          /\ mutations_data[i].motif # NA
          /\ Contribution(i) = 2

\* record i with its two tumor alleles exchanged
SwapTumor(table, i) ==
    [table EXCEPT ![i].tumor_allele_a = table[i].tumor_allele_b,
                  ![i].tumor_allele_b = table[i].tumor_allele_a]

\* record i with its two normal alleles exchanged
SwapNormal(table, i) ==
    [table EXCEPT ![i].normal_allele_a = table[i].normal_allele_b,
                  ![i].normal_allele_b = table[i].normal_allele_a]

sLEN2_10_plus1 == <<"L", "E", "N", "2", "_", "1", "0", "_", "+", "1">>

\* the record of the spec's scenario: motif AT, normal (8,10), tumor (8,11)
IsScenarioRecord(row) ==
    /\ row.motif = mAT
    /\ row.normal_allele_a = <<"8">> /\ row.normal_allele_b = <<"1", "0">>
    /\ row.tumor_allele_a = <<"8">> /\ row.tumor_allele_b = <<"1", "1">>

\* C7: alleles are paired by rank, as integers: slot A has ref = min(normal) and
\* delta = min(tumor) - min(normal), slot B has ref = max(normal) and
\* delta = max(tumor) - max(normal); exchanging the two tumor alleles or the two
\* normal alleles of a record leaves the matrix unchanged; and motif AT, normal
\* (8,10), tumor (8,11) under ru='length', ref_length=True, change=True yields
\* exactly one event, labelled LEN2_10_+1.
C7_PairedByRank ==
    Built =>
        /\ \A i \in 1..Len(mutations_data) :
              LET row == mutations_data[i]
                  d == compute_allele_changes(row)
              IN /\ AllelesParse(row) =>
                       /\ d.ref_a = Int_(RankRef(row, "a"))
                       /\ d.ref_b = Int_(RankRef(row, "b"))
                       /\ d.change_a = Int_(RankDelta(row, "a"))
                       /\ d.change_b = Int_(RankDelta(row, "b"))
                 /\ build_mutation_matrix(SwapTumor(mutations_data, i),
                                          ru, ref_length, change) = matrix
                 /\ build_mutation_matrix(SwapNormal(mutations_data, i),
                                          ru, ref_length, change) = matrix
        /\ (/\ Len(mutations_data) = 1
            /\ IsScenarioRecord(mutations_data[1])
            /\ ru = "length" /\ ref_length /\ change) =>
                matrix = [index |-> <<mutations_data[1].sample>>,
                          columns |-> <<sLEN2_10_plus1>>,
                          cells |-> << <<1>> >>]

\* C7 witness: the scenario's record alone, built under the scenario's
\* configuration: slot A is suppressed, slot B is the one event LEN2_10_+1
C7_Witness ==
    /\ Built
    /\ ru = "length" /\ ref_length /\ change
    /\ Len(mutations_data) = 1
    /\ IsScenarioRecord(mutations_data[1])
    /\ LabelOf(1, "a") = NA
    /\ matrix.columns = <<sLEN2_10_plus1>>
    /\ Total(matrix) = 1

\* the '_'-separated components of a label, and the shapes a component can have
Comps(label) == SplitOn(label, "_")
LastComp(label) == Comps(label)[Len(Comps(label))]
IsSigned(s) == Len(s) >= 2 /\ s[1] \in {"+", "-"} /\ IsDecimal(Tail(s))
IsSignedNonZero(s) == IsSigned(s) /\ IntOf(Tail(s)) # 0
IsLenToken(s) == Len(s) >= 4 /\ SubSeq(s, 1, 3) = <<"L", "E", "N">> /\ IsDecimal(SubSeq(s, 4, Len(s)))

\* the number of switches that are on
EnabledCount == (IF ru # "none" THEN 1 ELSE 0) + (IF ref_length THEN 1 ELSE 0)
                + (IF change THEN 1 ELSE 0)

\* C8: with change=True every column label ends in a signed non-zero integer
\* ('+' or '-' and digits); with change=False no label ends in a signed delta;
\* with ru='length' a label begins with LEN and digits, with ru='ru' with the
\* motif of a record, and with ru=None it has no motif component.
C8_LabelsFollowSwitches ==
    Built =>
        \A b \in 1..Len(matrix.columns) :
            LET label == matrix.columns[b] IN
            /\ change => IsSignedNonZero(LastComp(label))
            /\ ~change => ~IsSigned(LastComp(label))
            /\ ru = "length" => IsLenToken(Comps(label)[1])
            /\ ru = "ru" => \E i \in 1..Len(mutations_data) :
                                /\ mutations_data[i].motif = Comps(label)[1]
                                /\ StartsWith(label, mutations_data[i].motif)
            /\ ru = "none" =>
                  /\ Len(Comps(label)) = EnabledCount
                  /\ \A c \in 1..Len(Comps(label)) :
                        IsDecimal(Comps(label)[c]) \/ IsSigned(Comps(label)[c])

\* C8 witness: ru='ru' and change=True, with a label of a gain and a label of a loss
C8_Witness ==
    /\ Built
    /\ ru = "ru" /\ change
    /\ \E b \in 1..Len(matrix.columns) : LastComp(matrix.columns[b])[1] = "+"
    /\ \E b \in 1..Len(matrix.columns) : LastComp(matrix.columns[b])[1] = "-"

\* the patterns of MATRIX_CASES, on the components of a label
MatchesCase(label) ==
    LET c == Comps(label) IN
    /\ (ru = "ru" /\ ref_length /\ change) =>
          Len(c) = 3 /\ Len(c[1]) > 0 /\ IsDecimal(c[2]) /\ IsSigned(c[3])
    /\ (ru = "length" /\ ref_length /\ change) =>
          Len(c) = 3 /\ IsLenToken(c[1]) /\ IsDecimal(c[2]) /\ IsSigned(c[3])
    /\ (ru = "none" /\ ref_length /\ change) =>
          Len(c) = 2 /\ IsDecimal(c[1]) /\ IsSigned(c[2])
    /\ (ru = "length" /\ ref_length /\ ~change) =>
          Len(c) = 2 /\ IsLenToken(c[1]) /\ IsDecimal(c[2])
    /\ (ru = "ru" /\ ~ref_length /\ change) =>
          Len(c) = 2 /\ Len(c[1]) > 0 /\ IsSigned(c[2])

\* C9: for a table produced by parse_vcf_files, every column label has one
\* non-empty component per enabled switch, in the order motif, reference length,
\* delta, and matches the pattern MATRIX_CASES gives for the configuration.
C9_LabelsMatchTestPatterns ==
    Built =>
        \A b \in 1..Len(matrix.columns) :
            /\ MatchesCase(matrix.columns[b])
            /\ Len(Comps(matrix.columns[b])) = EnabledCount
            /\ \A c \in 1..Len(Comps(matrix.columns[b])) : Len(Comps(matrix.columns[b])[c]) > 0

\* the permutations of 1..n
Perms(n) == {p \in [1..n -> 1..n] : \A i, j \in 1..n : i # j => p[i] # p[j]}

\* C10: for a fixed configuration, any two tables with the same records in a
\* different row order give the same matrix (rows, columns and cells).
C10_RowOrderIsIrrelevant ==
    Built =>
        \A p \in Perms(Len(mutations_data)) :
            build_mutation_matrix([i \in 1..Len(mutations_data) |-> mutations_data[p[i]]],
                                  ru, ref_length, change) = matrix

\* C10 witness: a table whose rows are not in the order of the matrix axes: the
\* first record's sample and label both sort after the second's
C10_Witness ==
    /\ Built
    /\ Len(mutations_data) >= 2
    /\ StrLess(mutations_data[2].sample, mutations_data[1].sample)
    /\ Len(matrix.index) = 2
    /\ Len(matrix.columns) >= 2
    /\ LabelOf(1, "a") # NA /\ LabelOf(2, "a") # NA
    /\ StrLess(LabelOf(2, "a"), LabelOf(1, "a"))

(***************************************************************************)
(* The builder's outcomes: empty results and errors.                       *)
(***************************************************************************)
\* build_mutation_matrix was called and has returned or raised
Called == pc \in {"built", "raised"}

\* the two cases in which no event can survive: every record has equal sorted
\* pairs and change=True, or all three switches are off
NothingSurvives ==
    \/ change /\ \A i \in 1..Len(mutations_data) : SamePairs(mutations_data[i])
    \/ ru = "none" /\ ~ref_length /\ ~change

\* C11: whenever no event survives suppression, build_mutation_matrix returns a
\* matrix with zero rows and zero columns and does not raise: when every record
\* has identical sorted tumor and normal pairs and change=True, and for every
\* input table when ru=None, ref_length=False and change=False.
C11_EmptyMatrixNotAnError ==
    (Called /\ ru \in RuValues /\ NothingSurvives) =>
        /\ pc = "built"
        /\ error = "none"
        /\ matrix = NoMatrix

\* one of the four conditions on the arguments holds
BadArguments ==
    \/ data_kind # "DataFrame"
    \/ \E c \in required_cols : c \notin data_columns
    \/ "motif" \notin data_columns /\ "RU" \notin data_columns
    \/ ru \notin {"none", "length", "ru"}

\* the exceptions of the checks on the arguments
CheckErrors == {"TypeError", "ValueError_required", "ValueError_motif", "ValueError_ru"}

\* C12: build_mutation_matrix raises from its checks, and returns no matrix,
\* exactly when mutations_data is not a table, a required column is absent,
\* neither motif nor RU is present, or ru is not one of None, 'length', 'ru';
\* the checks come before any derivation, so a bad ru is reported as such also
\* for a table without records, where the derivation itself would fail.
C12_ChecksRaiseFirst ==
    Called =>
        /\ BadArguments <=> error \in CheckErrors
        /\ BadArguments => pc = "raised" /\ matrix = NoMatrix
        /\ data_kind # "DataFrame" => error = "TypeError"
        /\ (data_kind = "DataFrame" /\ required_cols \subseteq data_columns
            /\ {"motif", "RU"} \cap data_columns # {} /\ ru = sSEQ) =>
               error = "ValueError_ru"

\* C12 witness: a table without records, with RU in place of motif, and a ru
\* that is not recognized: the call raised the error of the ru check
C12_Witness ==
    /\ pc = "raised"
    /\ Len(mutations_data) = 0
    /\ data_kind = "DataFrame"
    /\ "RU" \in data_columns /\ "motif" \notin data_columns
    /\ ru = sSEQ
    /\ error = "ValueError_ru"

(***************************************************************************)
(* The extractor's handling of single lines.                               *)
(***************************************************************************)
\* what the extractor makes of a line that it filters out
FilteredOutcomes == {"filter", "notperfect", "nonnumeric"}

\* this step reads one line, and the line is filtered out
ReadsFilteredLine == nread' = nread + 1 /\ last'.outcome \in FilteredOutcomes

\* the step emits no record and the file goes on being read
ExcludedSilently ==
    /\ pc = "lines" /\ pc' = "lines"
    /\ rows' = rows
    /\ UNCHANGED <<all_rows, visited, fidx>>

\* C13 as stated: every filtered-out data line (FILTER not PASS, PERFECT=FALSE,
\* or a non-numeric allele) is excluded from the output without an error and
\* is counted in the counters the rejection ratio is computed from.
C13_FilteredLinesAreCounted ==
    [][ReadsFilteredLine =>
          /\ ExcludedSilently
          /\ written_variants' = written_variants
          /\ filter_not_passed_count' = filter_not_passed_count + 1]_vars

\* C13 amended: every filtered-out data line is excluded from the output
\* without an error; a line whose FILTER is not PASS adds one to the rejected
\* counter, while a PERFECT=FALSE line and a line with a non-numeric allele
\* change neither counter, so they do not enter the ratio.
C13_OnlyFilterFailuresAreCounted ==
    [][ReadsFilteredLine =>
          /\ ExcludedSilently
          /\ written_variants' = written_variants
          /\ filter_not_passed_count' =
                filter_not_passed_count + (IF last'.outcome = "filter" THEN 1 ELSE 0)]_vars

\* C13 witness: a PERFECT=FALSE line was just read in a file that has had one
\* line rejected by FILTER and one record: the counters stay at 1 and 1
C13_Witness ==
    /\ pc = "lines"
    /\ last.outcome = "notperfect"
    /\ Len(rows) = 1
    /\ written_variants = 1
    /\ filter_not_passed_count = 1

\* this step reads a line of the file and the file goes on being read
ReadsOn == pc = "lines" /\ pc' = "lines" /\ nread' = nread + 1

\* the record this step appends was decoded from its line with the ordering keys
DecodedWith(keys) ==
    LET cols == LineCatalog[last'.line]
        r == rows'[Len(rows')]
    IN /\ Len(rows') = Len(rows) + 1
       /\ <<r.normal_allele_a, r.normal_allele_b>> = get_repcn(keys, cols[10])
       /\ <<r.tumor_allele_a, r.tumor_allele_b>> = get_repcn(keys, cols[11])

\* C14 as stated: within one file the FORMAT ordering in use is that of column 9
\* of the first data line of the file; once set it never changes, also when a
\* later line has another column 9 or a #CHROM line is read again, and every
\* record is decoded with it.
C14_FormatIsOfFirstDataLine ==
    [][ReadsOn =>
          /\ format_fields.set => format_fields' = format_fields
          /\ format_fields'.set =>
                first_data'.any.set /\ format_fields'.keys = first_data'.any.keys
          /\ last'.outcome = "record" => DecodedWith(first_data'.any.keys)]_vars

\* C14 amended: within one file the FORMAT ordering is unset until the first
\* data line that has at least 10 columns, passes FILTER and is not flagged
\* PERFECT=FALSE, is set from column 9 of that line, and never changes
\* afterwards, also when a later line has another column 9 or a #CHROM line is
\* read again; every record is decoded with it.
C14_FormatIsOfFirstPassingLine ==
    [][ReadsOn =>
          /\ format_fields.set => format_fields' = format_fields
          /\ format_fields' = first_data'.passing
          /\ last'.outcome = "record" => DecodedWith(first_data'.passing.keys)]_vars

\* C14 witness: the ordering in use is GT:REPCN, and the line just read, whose
\* own column 9 is REPCN:GT, gave a record with the values found under GT:REPCN
\* (normal 5,6 and tumor 5,7), not those under its own ordering (9,10 and 11,10)
C14_Witness ==
    /\ pc = "lines"
    /\ last.outcome = "record"
    /\ SplitOn(Col(LineCatalog[last.line], 8), ":") = <<kREPCN, <<"G", "T">>>>
    /\ format_fields.keys = << <<"G", "T">>, kREPCN>>
    /\ Len(rows) = 2
    /\ rows[2].normal_allele_a = <<"5">> /\ rows[2].normal_allele_b = <<"6">>
    /\ rows[2].tumor_allele_a = <<"5">> /\ rows[2].tumor_allele_b = <<"7">>

\* this step reads a line of the file (and goes on, or raises)
ReadsLine == pc = "lines" /\ last'.outcome # "none"

\* C15: a data line with fewer than 10 columns is skipped wherever it occurs,
\* also before the #CHROM header: no record, no change of the rejected or the
\* accepted counter or of the FORMAT ordering, and the file does not fail; a
\* line that yields a record or raises the missing-sample-column error has at
\* least 10 columns.
C15_ShortLinesAreSkipped ==
    [][ReadsLine =>
          /\ last'.short =>
                /\ ExcludedSilently
                /\ UNCHANGED <<filter_not_passed_count, written_variants, format_fields,
                               header_seen, normal_idx, tumor_idx>>
          /\ (Len(rows') > Len(rows) \/ last'.outcome \in {"record", "raise_sample"}) =>
                ~last'.short]_vars

\* C15 witness: a line of fewer than 10 columns was just read before any #CHROM
\* line of the file, and the file is still being read
C15_Witness ==
    /\ pc = "lines"
    /\ last.short
    /\ ~header_seen
    /\ ~format_fields.set
    /\ filter_not_passed_count = 0 /\ written_variants = 0

(***************************************************************************)
(* The builder on records whose alleles do not parse.                      *)
(***************************************************************************)
\* int() fails on one of the four allele values of the record
FailsParsing(row) == \E i \in 1..4 : ~CanInt(AllelesOf(row)[i])

AllMissing == [change_a |-> NAInt, change_b |-> NAInt, ref_a |-> NAInt, ref_b |-> NAInt]

\* C16 as stated: a record whose allele values fail integer parsing gets missing
\* values for change A, change B, ref A and ref B, and contributes no event to
\* the matrix under any configuration.
C16_UnparsedRecordsGiveNoEvent ==
    Built =>
        \A i \in 1..Len(mutations_data) :
            FailsParsing(mutations_data[i]) =>
                /\ compute_allele_changes(mutations_data[i]) = AllMissing
                /\ Contribution(i) = 0

\* C16 amended: such a record gets missing values for the four derived
\* quantities; it contributes no event when ref_length or change is on (or
\* when ru=None, or its motif is missing), and two events, labelled by the
\* motif component alone, when ru is 'length' or 'ru' and both ref_length and
\* change are off.
C16_UnparsedRecordsGiveNoEventUnlessMotifOnly ==
    Built =>
        \A i \in 1..Len(mutations_data) :
            FailsParsing(mutations_data[i]) =>
                /\ compute_allele_changes(mutations_data[i]) = AllMissing
                /\ Contribution(i) =
                      IF ref_length \/ change \/ ru = "none" \/ mutations_data[i].motif = NA
                      THEN 0 ELSE 2
                /\ (~ref_length /\ ~change /\ ru # "none" /\ mutations_data[i].motif # NA) =>
                      /\ LabelOf(i, "a") = MotifParts(ru, mutations_data[i].motif)[1]
                      /\ LabelOf(i, "b") = LabelOf(i, "a")

\* C16 witness: a table of a record that parses and a record with the allele
\* SUPERSCRIPT TWO, built with ru='ru' and the other switches off: the record
\* that does not parse adds two events
C16_Witness ==
    /\ Built
    /\ ru = "ru" /\ ~ref_length /\ ~change
    /\ Len(mutations_data) = 2
    /\ ~FailsParsing(mutations_data[1])
    /\ FailsParsing(mutations_data[2])
    /\ Contribution(2) = 2
    /\ Total(matrix) = 4

(***************************************************************************)
(* The sample identifier.                                                  *)
(***************************************************************************)
\* a file name without its extension .vcf.gz or .vcf
WithoutExtension(file) ==
    IF EndsWith(file, extVcfGz) THEN SubSeq(file, 1, Len(file) - Len(extVcfGz))
    ELSE IF EndsWith(file, extVcf) THEN SubSeq(file, 1, Len(file) - Len(extVcf))
    ELSE file

\* C17: the sample identifier of every record emitted for a file is the file's
\* base name without its extension .vcf or .vcf.gz, so X.vcf and X.vcf.gz both
\* give records of sample X.
C17_SampleIsNameWithoutExtension ==
    /\ pc = "lines" => \A r \in Range(rows) : r.sample = WithoutExtension(dir[fidx])
    /\ \A i \in 1..Len(visited) :
          \A r \in Range(visited[i].rows) : r.sample = WithoutExtension(visited[i].name)

====
